---- MODULE Spec2Model ----
(***************************************************************************)
(* Model of CanvaIE._real_extract (yt_dlp/extractor/canva.py): the page    *)
(* resolver, the export initiator and the bounded export poller.           *)
(*                                                                         *)
(* Text (the page, URLs, JSON string values) is a sequence of one-char     *)
(* strings, so that case, prefixes and substrings are computed.            *)
(***************************************************************************)
EXTENDS Integers, Sequences, FiniteSets, TLC

(***************************************************************************)
(* Class constants                                                         *)
(***************************************************************************)
_POLLING_INTERVAL == 3
_POLLING_MAX_ATTEMPTS == 30

(***************************************************************************)
(* Text helpers                                                            *)
(***************************************************************************)
UpperChars == <<"A","B","C","D","E","F","G","H","I","J","K","L","M",
                "N","O","P","Q","R","S","T","U","V","W","X","Y","Z">>
LowerChars == <<"a","b","c","d","e","f","g","h","i","j","k","l","m",
                "n","o","p","q","r","s","t","u","v","w","x","y","z">>

\* str.lower() on one character
LowerChar(c) ==
    IF \E i \in 1..26 : UpperChars[i] = c
    THEN LowerChars[CHOOSE i \in 1..26 : UpperChars[i] = c]
    ELSE c

\* str.lower()
Lower(s) == [i \in 1..Len(s) |-> LowerChar(s[i])]

\* s[i:].startswith(lit), positions are 1-based
StartsAt(s, i, lit) ==
    /\ i + Len(lit) - 1 <= Len(s)
    /\ \A j \in 1..Len(lit) : s[i + j - 1] = lit[j]

\* the `in` operator on strings: lit in s
Contains(s, lit) == \E i \in 1..(Len(s) + 1) : StartsAt(s, i, lit)

(***************************************************************************)
(* Python / JSON values.  A JSON member is absent, null, a number or a     *)
(* string; None is Python's None.                                          *)
(***************************************************************************)
None == [t |-> "none", v |-> <<>>]
Absent == [t |-> "absent", v |-> <<>>]
Null == [t |-> "null", v |-> <<>>]
Num == [t |-> "num", v |-> <<>>]
Str(s) == [t |-> "str", v |-> s]

\* bool(x): None and '' are falsy, a non-empty str and a number are truthy
Truthy(x) ==
    CASE x.t = "str" -> Len(x.v) > 0
      [] x.t = "num" -> TRUE
      [] OTHER -> FALSE

\* a or b
Or(a, b) == IF Truthy(a) THEN a ELSE b

\* traverse_obj(obj, (..., {str})): the member when it is a str, else None
TraverseStr(member) == IF member.t = "str" THEN member ELSE None

\* url_or_none: the string when it starts with an optional scheme and '//'
UrlSchemes == {<<"h","t","t","p",":">>, <<"h","t","t","p","s",":">>, <<>>}
url_or_none(x) ==
    IF /\ x.t = "str"
       /\ \E sch \in UrlSchemes : StartsAt(x.v, 1, sch \o <<"/","/">>)
    THEN x
    ELSE None

\* traverse_obj(obj, (..., 'url', {url_or_none}))
TraverseUrl(member) == url_or_none(member)

(***************************************************************************)
(* Regular expressions.  A pattern is a sequence of tokens; every pattern  *)
(* of the extractor is unambiguous, so greedy matching without             *)
(* backtracking is what re computes.                                       *)
(*   lit  a literal            ws   \s*                                    *)
(*   opt  an optional literal  num  (\d+(?:\.\d+)?)   captured             *)
(*   seg  ([^/]+) captured     alt  one of several literals                *)
(*   lazy .*?  (the fewest characters other than a line break that let     *)
(*        the rest of the pattern match)      greedy  .*  (the most)       *)
(***************************************************************************)
Lit(l) == [k |-> "lit", l |-> {l}]
Opt(l) == [k |-> "opt", l |-> {l}]
Alt(ls) == [k |-> "alt", l |-> ls]
WsTok == [k |-> "ws", l |-> {}]
NumTok == [k |-> "num", l |-> {}]
SegTok == [k |-> "seg", l |-> {}]
LazyDotTok == [k |-> "lazy", l |-> {}]
GreedyDotTok == [k |-> "greedy", l |-> {}]

WsChars == {" ", "\t", "\n", "\r"}
DigitChars == <<"0","1","2","3","4","5","6","7","8","9">>
IsDigit(c) == \E d \in 1..10 : DigitChars[d] = c
DigitVal(c) == (CHOOSE d \in 1..10 : DigitChars[d] = c) - 1

\* character classes of the patterns: \s, \d and [^/]
InClass(cls, c) ==
    CASE cls = "ws" -> c \in WsChars
      [] cls = "digit" -> IsDigit(c)
      [] cls = "notslash" -> c # "/"

\* first position at or after i whose character is not in the class
RECURSIVE SkipWhile(_, _, _)
SkipWhile(s, i, cls) ==
    IF i <= Len(s) /\ InClass(cls, s[i]) THEN SkipWhile(s, i + 1, cls) ELSE i

\* end (exclusive) of \d+(?:\.\d+)? at i, or 0 when there is no digit at i
NumEnd(s, i) ==
    LET j == SkipWhile(s, i, "digit") IN
    IF j = i THEN 0
    ELSE IF j <= Len(s) /\ s[j] = "." /\ SkipWhile(s, j + 1, "digit") > j + 1
         THEN SkipWhile(s, j + 1, "digit")
         ELSE j

Slice(s, i, j) == SubSeq(s, i, j - 1)

NoMatch == [ok |-> FALSE, end |-> 0, groups |-> <<>>]

\* match tokens k.. of pat against s at position i; groups collects captures
RECURSIVE MatchTokens(_, _, _, _, _)
MatchTokens(s, i, pat, k, groups) ==
    IF k > Len(pat) THEN [ok |-> TRUE, end |-> i, groups |-> groups]
    ELSE LET tok == pat[k] IN
      CASE tok.k = "lit" ->
             LET l == CHOOSE x \in tok.l : TRUE IN
             IF StartsAt(s, i, l)
             THEN MatchTokens(s, i + Len(l), pat, k + 1, groups)
             ELSE NoMatch
        [] tok.k = "opt" ->
             LET l == CHOOSE x \in tok.l : TRUE IN
             IF StartsAt(s, i, l)
             THEN MatchTokens(s, i + Len(l), pat, k + 1, groups)
             ELSE MatchTokens(s, i, pat, k + 1, groups)
        [] tok.k = "alt" ->
             IF \E x \in tok.l : StartsAt(s, i, x)
             THEN LET l == CHOOSE x \in tok.l : StartsAt(s, i, x) IN
                  MatchTokens(s, i + Len(l), pat, k + 1, groups)
             ELSE NoMatch
        [] tok.k = "ws" ->
             MatchTokens(s, SkipWhile(s, i, "ws"), pat, k + 1, groups)
        [] tok.k = "num" ->
             LET j == NumEnd(s, i) IN
             IF j = 0 THEN NoMatch
             ELSE MatchTokens(s, j, pat, k + 1, Append(groups, Slice(s, i, j)))
        [] tok.k = "seg" ->
             LET j == SkipWhile(s, i, "notslash") IN
             IF j = i THEN NoMatch
             ELSE MatchTokens(s, j, pat, k + 1, Append(groups, Slice(s, i, j)))
        [] tok.k \in {"lazy", "greedy"} ->
             LET stops == {j \in i..(Len(s) + 1) :
                             /\ \A q \in i..(j - 1) : s[q] # "\n"
                             /\ MatchTokens(s, j, pat, k + 1, groups).ok}
             IN IF stops = {} THEN NoMatch
                ELSE IF tok.k = "lazy"
                THEN MatchTokens(s, CHOOSE j \in stops : \A q \in stops : j <= q,
                                 pat, k + 1, groups)
                ELSE MatchTokens(s, CHOOSE j \in stops : \A q \in stops : j >= q,
                                 pat, k + 1, groups)

\* re.match: the pattern anchored at the start of s
ReMatch(pat, s) == MatchTokens(s, 1, pat, 1, <<>>)

\* re.search: the leftmost position where the pattern matches
ReSearch(pat, s) ==
    IF \E i \in 1..(Len(s) + 1) : MatchTokens(s, i, pat, 1, <<>>).ok
    THEN LET first == CHOOSE i \in 1..(Len(s) + 1) :
                        /\ MatchTokens(s, i, pat, 1, <<>>).ok
                        /\ \A j \in 1..(i - 1) : ~MatchTokens(s, j, pat, 1, <<>>).ok
         IN MatchTokens(s, first, pat, 1, <<>>)
    ELSE NoMatch

\* _VALID_URL
_VALID_URL ==
    << Lit(<<"h","t","t","p">>), Opt(<<"s">>), Lit(<<":","/","/">>),
       Opt(<<"w","w","w",".">>),
       Lit(<<"c","a","n","v","a",".","c","o","m","/","d","e","s","i","g","n","/">>),
       SegTok, Lit(<<"/">>), SegTok, Lit(<<"/">>),
       Alt({<<"w","a","t","c","h">>, <<"v","i","e","w">>}) >>

\* the guard of _JSON_HIJACK_RE: while\s*\(\s*1\s*\)\s*;\s*</x>//
HijackGuard ==
    << Lit(<<"w","h","i","l","e">>), WsTok, Lit(<<"(">>), WsTok, Lit(<<"1">>), WsTok,
       Lit(<<")">>), WsTok, Lit(<<";">>), WsTok, Lit(<<"<","/","x",">","/","/">>) >>

\* variant of _JSON_HIJACK_RE with a greedy prefix
_JSON_HIJACK_RE_Greedy == <<GreedyDotTok>> \o HijackGuard

\* _JSON_HIJACK_RE: ^.*? and the guard
_JSON_HIJACK_RE == <<LazyDotTok>> \o HijackGuard

\* re.sub(pattern, '', text) for a pattern anchored with ^: the one match
\* at the start of the text, when there is one, is removed
ReSubAnchored(pat, text) ==
    LET m == ReMatch(pat, text) IN
    IF m.ok THEN SubSeq(text, m.end, Len(text)) ELSE text

\* lines 49-50
_strip_json_hijack(text) == ReSubAnchored(_JSON_HIJACK_RE, text)

\* the dimensions pattern of _real_extract
DimensionsRe ==
    << Lit(<<"\"","C","\"">>), WsTok, Lit(<<":">>), WsTok, Lit(<<"{">>), WsTok,
       Lit(<<"\"","A","\"">>), WsTok, Lit(<<":">>), WsTok, NumTok, WsTok,
       Lit(<<",">>), WsTok,
       Lit(<<"\"","B","\"">>), WsTok, Lit(<<":">>), WsTok, NumTok, WsTok,
       Lit(<<",">>), WsTok,
       Lit(<<"\"","C","\"">>), WsTok, Lit(<<":">>), WsTok, Lit(<<"\"","D","\"">>),
       WsTok, Lit(<<"}">>) >>

\* int_or_none(float_or_none(text)): the integer part of a matched number
RECURSIVE IntPart(_, _, _)
IntPart(s, i, acc) ==
    IF i <= Len(s) /\ IsDigit(s[i])
    THEN IntPart(s, i + 1, acc * 10 + DigitVal(s[i]))
    ELSE acc
IntOfFloat(s) == IntPart(s, 1, 0)

\* variant that assigns the two matched numbers the other way round
DimensionsExchanged(webpage) ==
    LET m == ReSearch(DimensionsRe, webpage) IN
    IF m.ok THEN <<IntOfFloat(m.groups[2]), IntOfFloat(m.groups[1])>>
    ELSE <<1920, 1080>>

\* lines 65-71: the (width, height) pair for a page
Dimensions(webpage) ==
    LET m == ReSearch(DimensionsRe, webpage) IN
    IF m.ok THEN <<IntOfFloat(m.groups[1]), IntOfFloat(m.groups[2])>>
    ELSE <<1920, 1080>>

\* line 56: the access-denied test
PermissionMarker == <<"p","e","r","m","i","s","s","i","o","n">>
RequestAccessMarker == <<"R","e","q","u","e","s","t"," ","a","c","c","e","s","s">>
AccessDenied(webpage) ==
    \/ Contains(Lower(webpage), PermissionMarker)
    \/ Contains(webpage, RequestAccessMarker)

(***************************************************************************)
(* Inputs: the URL handed to the extractor and what the collaborators      *)
(* (page fetch, metadata search, JSON fetch) return.                       *)
(***************************************************************************)
UrlHead == <<"c","a","n","v","a",".","c","o","m","/","d","e","s","i","g","n","/">>
Url1 == <<"h","t","t","p","s",":","/","/","w","w","w",".">> \o UrlHead
          \o <<"D","A","1","/","t","K","1","/","w","a","t","c","h">>
Url2 == <<"h","t","t","p",":","/","/">> \o UrlHead
          \o <<"D","B","2","/","t","K","2","/","v","i","e","w","?","x">>
UrlNoToken == <<"h","t","t","p","s",":","/","/","w","w","w",".">> \o UrlHead
          \o <<"D","A","1","/","w","a","t","c","h">>
UrlOtherHost == <<"h","t","t","p","s",":","/","/","c","a","n","v","a",".","n","e","t",
                  "/","d","e","s","i","g","n","/","D","A","1","/","t","K","1","/","v","i","e","w">>
UrlEdit == <<"h","t","t","p","s",":","/","/">> \o UrlHead
          \o <<"D","A","1","/","t","K","1","/","e","d","i","t">>
Urls == {Url1, Url2, UrlNoToken, UrlOtherHost, UrlEdit}

PagePlain == <<"<","p",">","v","i","d","e","o","<","/","p",">">>
PageDims == <<"{","\"","C","\"",":","{","\"","A","\"",":","1","2","8","0",".","0",",",
              "\"","B","\"",":","7","2","0",".","0",",","\"","C","\"",":","\"","D","\"","}","}">>
PageDimsWs == <<"\"","C","\""," ",":"," ","{"," ","\"","A","\"",":","6","4","0"," ",",",
                "\"","B","\"",":"," ","3","6","0",".","9",",","\"","C","\"",":","\"","D","\""," ","}">>
PageDimsBroken == <<"\"","C","\"",":","{","\"","A","\"",":","1","2",".",",",
                    "\"","B","\"",":","7",",","\"","C","\"",":","\"","D","\"","}">>
PageRequestAccess == <<"<","b",">">> \o RequestAccessMarker \o <<"<","/","b",">">>
PageRequestLower == <<"<","b",">","r","e","q","u","e","s","t"," ","a","c","c","e","s","s">>
PageRequestUpper == <<"R","E","Q","U","E","S","T"," ","A","C","C","E","S","S","!">>
PagePermission == <<"n","o"," ">> \o PermissionMarker
PagePermissionCaps == <<"P","e","r","m","i","s","s","I","O","N","s">>
Pages == {PagePlain, PageDims, PageDimsWs, PageDimsBroken, PageRequestAccess,
          PageRequestLower, PageRequestUpper, PagePermission, PagePermissionCaps}

OgTitles == {None, Str(<<"O","g">>)}
HtmlTitles == {None, Str(<<"H","t">>)}
OgThumbnails == {None, Str(<<"/","/","i","/","s","c","r","e","e","n">>)}

\* export.exportIdentifier of the initiation response
ExportId1 == Str(<<"e","1">>)
ExportId2 == Str(<<"e","2">>)
InitResponses == {[exportIdentifier |-> x] : x \in {ExportId1, ExportId2, Str(<<>>), Absent, Null, Num}}

COMPLETE == <<"C","O","M","P","L","E","T","E">>
FAILED == <<"F","A","I","L","E","D">>
PENDING == <<"P","E","N","D","I","N","G">>
CompleteLower == <<"c","o","m","p","l","e","t","e">>
FailedMixed == <<"F","a","i","l","e","d">>

GoodUrlA == Str(<<"h","t","t","p","s",":","/","/","a",".","m","p","4">>)
GoodUrlB == Str(<<"/","/","b",".","m","p","4">>)
BadUrl == Str(<<"a",".","m","p","4">>)
JobTitle == Str(<<"J","o","b">>)

\* a poll response: export.status, export.output.exportBlobs[0].url,
\* export.exportBlobs[0].url and export.output.title
PollResponse(st, a, b, t) == [status |-> st, output_url |-> a, blob_url |-> b, output_title |-> t]
NonTerminalStatuses == {Str(PENDING), Str(CompleteLower), Str(FailedMixed), Str(<<>>), Absent, Null, Num}
PollResponses ==
    {PollResponse(Str(COMPLETE), a, b, t) :
        a \in {GoodUrlA, BadUrl, Str(<<>>), Absent, Null, Num},
        b \in {GoodUrlB, BadUrl, Absent},
        t \in {Absent, JobTitle}}
    \cup {PollResponse(st, Absent, Absent, Absent) : st \in NonTerminalStatuses \cup {Str(FAILED)}}
    \cup {PollResponse(st, GoodUrlA, GoodUrlB, JobTitle) : st \in {Str(PENDING), Str(FAILED), Null}}

\* texts handed to _strip_json_hijack: up to MaxFragments pieces in a row
MaxFragments == 3
GuardCompact == <<"w","h","i","l","e","(","1",")",";","<","/","x",">","/","/">>
GuardSpaced == <<"w","h","i","l","e"," ","(","1"," ",")","\n",";"," "," ","<","/","x",">","/","/">>
StripFragments ==
    {GuardCompact, GuardSpaced, <<"\n">>, <<"'","\"",")","]","}">>,
     <<"{","\"","a","\"",":","1","}">>, <<"w","h","i","l","e","(","1",")",";"," ","<","x",">">>}
RECURSIVE Flatten(_)
Flatten(ss) == IF ss = <<>> THEN <<>> ELSE Head(ss) \o Flatten(Tail(ss))
StripInputs == {Flatten(ss) : ss \in UNION {[1..k -> StripFragments] : k \in 0..MaxFragments}}

(***************************************************************************)
(* State of one run of _real_extract                                       *)
(***************************************************************************)
VARIABLES
    pc,            \* position in _real_extract
    url,           \* the argument
    video_id, token, webpage, title, thumbnail, width, height,
    export_data, export_id, attempt, poll_data,   \* locals of _real_extract
    outcome,       \* "running", "result" (returned) or "error" (raised)
    error,         \* the exception raised
    result,        \* the dict returned
    exportRequest, \* the body of the initiation request
    nFetch, nInit, nSleep, nPoll,   \* collaborator calls made so far
    nFailed,       \* collaborator calls that raised
    nPending,      \* poll responses fetched whose status was not terminal
    polledIds,     \* export identifiers the poll requests were made for
    sleepMsg,      \* interval and attempt numbers of the last progress message
    cancelled,     \* whether a delay of the run was interrupted
    source, stripped,   \* argument and value of a _strip_json_hijack call
    other, active  \* the suspended run of a second extraction, and which run is active

locals == <<video_id, token, webpage, title, thumbnail, width, height,
            export_data, export_id, attempt, poll_data>>
ends == <<outcome, error, result>>
calls == <<exportRequest, nFetch, nInit, nSleep, nPoll, nFailed, nPending, polledIds, sleepMsg>>
strip == <<source, stripped>>
sched == <<other, active>>
run == <<pc, url, locals, ends, calls, cancelled>>
vars == <<run, strip, sched>>

NoError == [msg |-> "", expected |-> FALSE]
ExtractorError(msg, expected) == [msg |-> msg, expected |-> expected]
NoResult == [id |-> None, title |-> None, url |-> None, ext |-> None,
             thumbnail |-> None, width |-> 0, height |-> 0]
NoRequest == [id |-> None, extension |-> None, width |-> 0, height |-> 0]
NoResponse == PollResponse(None, None, None, None)
NoExportData == [exportIdentifier |-> None]
NoSleep == [interval |-> 0, attempt |-> 0, of |-> 0]

\* the state of a run that has not been started on the URL u
NewRun(u) ==
    [pc |-> "match", url |-> u,
     video_id |-> None, token |-> None, webpage |-> <<>>,
     title |-> None, thumbnail |-> None, width |-> 0, height |-> 0,
     export_data |-> NoExportData, export_id |-> None, attempt |-> 0, poll_data |-> NoResponse,
     outcome |-> "running", error |-> NoError, result |-> NoResult,
     exportRequest |-> NoRequest,
     nFetch |-> 0, nInit |-> 0, nSleep |-> 0, nPoll |-> 0, nFailed |-> 0, nPending |-> 0,
     polledIds |-> {}, sleepMsg |-> NoSleep, cancelled |-> FALSE]

\* no second extraction
NoRun == [NewRun(<<>>) EXCEPT !.pc = "none"]

\* the state of the active run
ThisRun ==
    [pc |-> pc, url |-> url, video_id |-> video_id,
     token |-> token, webpage |-> webpage, title |-> title,
     thumbnail |-> thumbnail, width |-> width, height |-> height,
     export_data |-> export_data, export_id |-> export_id, attempt |-> attempt,
     poll_data |-> poll_data, outcome |-> outcome, error |-> error,
     result |-> result, exportRequest |-> exportRequest, nFetch |-> nFetch,
     nInit |-> nInit, nSleep |-> nSleep, nPoll |-> nPoll,
     nFailed |-> nFailed, nPending |-> nPending, polledIds |-> polledIds,
     sleepMsg |-> sleepMsg, cancelled |-> cancelled]

\* whether a second extraction is under way
TwoRuns == other.pc # "none"

\* what the collaborators return; with two extractions under way the
\* choice is narrowed to keep the pairs of runs enumerable
PageInputs == IF TwoRuns THEN {PagePlain, PageDims} ELSE Pages
OgTitleInputs == IF TwoRuns THEN {None} ELSE OgTitles
HtmlTitleInputs == IF TwoRuns THEN {Str(<<"H","t">>)} ELSE HtmlTitles
ThumbnailInputs == IF TwoRuns THEN {None} ELSE OgThumbnails
InitInputs ==
    IF TwoRuns THEN {[exportIdentifier |-> x] : x \in {ExportId1, ExportId2}} ELSE InitResponses
PollInputs ==
    IF TwoRuns
    THEN {PollResponse(Str(PENDING), GoodUrlA, GoodUrlB, JobTitle),
          PollResponse(Str(COMPLETE), GoodUrlA, Absent, Absent)}
    ELSE PollResponses
ExpectedFlags == IF TwoRuns THEN {FALSE} ELSE BOOLEAN

Init ==
    /\ pc = "match"
    /\ url \in Urls
    /\ video_id = None /\ token = None /\ webpage = <<>>
    /\ title = None /\ thumbnail = None /\ width = 0 /\ height = 0
    /\ export_data = NoExportData /\ export_id = None /\ attempt = 0 /\ poll_data = NoResponse
    /\ outcome = "running" /\ error = NoError /\ result = NoResult
    /\ exportRequest = NoRequest
    /\ nFetch = 0 /\ nInit = 0 /\ nSleep = 0 /\ nPoll = 0 /\ nFailed = 0 /\ nPending = 0
    /\ polledIds = {} /\ sleepMsg = NoSleep
    /\ cancelled = FALSE
    /\ source = <<>> /\ stripped = <<>>
    /\ other = NoRun /\ active = 1

\* raise: the run ends with an exception
Raise(e) ==
    /\ pc' = "done" /\ outcome' = "error" /\ error' = e /\ result' = result

\* return: the run ends with a result
Return(r) ==
    /\ pc' = "done" /\ outcome' = "result" /\ result' = r /\ error' = error

\* _match_valid_url: the match of _VALID_URL at the start of the URL, or None
_match_valid_url(u) == ReMatch(_VALID_URL, u)

\* line 53 when there is no match: .group of None raises
InputFormatError ==
    ExtractorError("'NoneType' object has no attribute 'group'", FALSE)

\* variant that goes on without the two groups when the URL does not match
MatchValidUrlUnchecked ==
    /\ pc = "match"
    /\ LET m == _match_valid_url(url) IN
       /\ video_id' = IF m.ok THEN Str(m.groups[1]) ELSE None
       /\ token' = IF m.ok THEN Str(m.groups[2]) ELSE None
    /\ pc' = "webpage"
    /\ UNCHANGED <<cancelled, strip, sched>>
    /\ UNCHANGED <<url, webpage, title, thumbnail, width, height, export_data, export_id,
                   attempt, poll_data, ends, calls>>

\* line 53: video_id, token = self._match_valid_url(url).group('id', 'token')
MatchValidUrl ==
    /\ pc = "match"
    /\ LET m == _match_valid_url(url) IN
       IF m.ok
       THEN /\ video_id' = Str(m.groups[1])
            /\ token' = Str(m.groups[2])
            /\ pc' = "webpage"
            /\ UNCHANGED ends
       ELSE /\ Raise(InputFormatError)
            /\ UNCHANGED <<video_id, token>>
    /\ UNCHANGED <<cancelled, strip, sched>>
    /\ UNCHANGED <<url, webpage, title, thumbnail, width, height, export_data, export_id,
                   attempt, poll_data, calls>>

\* line 54, _download_webpage raises: the failure propagates; whether it is
\* marked expected is the collaborator's choice
DownloadWebpageFails ==
    /\ pc = "webpage"
    /\ nFetch' = nFetch + 1
    /\ nFailed' = nFailed + 1
    /\ \E expected \in ExpectedFlags : Raise(ExtractorError("Unable to download webpage", expected))
    /\ UNCHANGED <<cancelled, strip, sched>>
    /\ UNCHANGED <<url, locals, exportRequest, nInit, nSleep, nPoll, nPending, polledIds, sleepMsg>>

\* variant of the access-denied error without expected=True
AccessDeniedErrorUnexpected ==
    ExtractorError("You do not have permission to access this design. "
                   \o "The owner must share it as \"Anyone with the link can view\"", FALSE)

\* lines 57-60: the access-denied error
AccessDeniedError ==
    ExtractorError("You do not have permission to access this design. "
                   \o "The owner must share it as \"Anyone with the link can view\"", TRUE)

\* lines 54-71: the page is fetched, checked for the access-denied markers
\* and searched for title, thumbnail and dimensions
DownloadWebpage ==
    /\ pc = "webpage"
    /\ nFetch' = nFetch + 1
    /\ \E page \in PageInputs, og \in OgTitleInputs, html \in HtmlTitleInputs,
          thumb \in ThumbnailInputs :
        /\ webpage' = page
        /\ IF AccessDenied(page)
           THEN /\ Raise(AccessDeniedError)
                /\ UNCHANGED <<title, thumbnail, width, height>>
           ELSE /\ title' = Or(og, html)
                /\ thumbnail' = thumb
                /\ width' = Dimensions(page)[1]
                /\ height' = Dimensions(page)[2]
                /\ pc' = "export"
                /\ UNCHANGED ends
    /\ UNCHANGED <<cancelled, strip, sched>>
    /\ UNCHANGED <<url, video_id, token, export_data, export_id, attempt, poll_data,
                   exportRequest, nInit, nSleep, nPoll, nFailed, nPending, polledIds, sleepMsg>>

\* variant of the request body with the two URL groups exchanged
ExportRequestSwapped ==
    [id |-> token, extension |-> video_id, width |-> width, height |-> height]

\* lines 74-106: the body of the export request
ExportRequest ==
    [id |-> video_id, extension |-> token, width |-> width, height |-> height]

\* variant in which a failed initiation is issued again
InitiateExportFailsRetried ==
    /\ pc = "export"
    /\ nInit < 2
    /\ nInit' = nInit + 1
    /\ exportRequest' = ExportRequest
    /\ nFailed' = nFailed + 1
    /\ UNCHANGED <<cancelled, strip, sched>>
    /\ UNCHANGED <<pc, url, locals, ends, nFetch, nSleep, nPoll, nPending, polledIds, sleepMsg>>

\* lines 74-106, _download_json raises: the failure propagates
InitiateExportFails ==
    /\ pc = "export"
    /\ nInit' = nInit + 1
    /\ exportRequest' = ExportRequest
    /\ nFailed' = nFailed + 1
    /\ \E expected \in ExpectedFlags : Raise(ExtractorError("Failed to initiate export", expected))
    /\ UNCHANGED <<cancelled, strip, sched>>
    /\ UNCHANGED <<url, locals, nFetch, nSleep, nPoll, nPending, polledIds, sleepMsg>>

\* variant of the identifier test that only rejects None
ExportIdMissingNoneOnly(id) == id = None

\* line 109: if not export_id
ExportIdMissing(id) == ~Truthy(id)

\* lines 74-112: the export is initiated and its identifier read
InitiateExport ==
    /\ pc = "export"
    /\ nInit' = nInit + 1
    /\ exportRequest' = ExportRequest
    /\ \E data \in InitInputs :
        /\ export_data' = data
        /\ export_id' = TraverseStr(data.exportIdentifier)
        /\ IF ExportIdMissing(export_id')
           THEN /\ Raise(ExtractorError("Failed to get export identifier from Canva API", FALSE))
                /\ UNCHANGED attempt
           ELSE /\ attempt' = 1
                /\ pc' = "sleep"
                /\ UNCHANGED ends
    /\ UNCHANGED <<cancelled, strip, sched>>
    /\ UNCHANGED <<url, video_id, token, webpage, title, thumbnail, width, height, poll_data,
                   nFetch, nSleep, nPoll, nFailed, nPending, polledIds, sleepMsg>>

\* lines 113-114: the progress message of the delay before attempt k
ProgressMessage(k) ==
    [interval |-> _POLLING_INTERVAL, attempt |-> k, of |-> _POLLING_MAX_ATTEMPTS]

\* variant that delays only between two polls, not before the first
SleepNotBeforeFirst ==
    /\ pc = "sleep"
    /\ IF attempt = 1
       THEN UNCHANGED <<nSleep, sleepMsg>>
       ELSE /\ nSleep' = nSleep + 1
            /\ sleepMsg' = ProgressMessage(attempt)
    /\ pc' = "poll"
    /\ UNCHANGED <<cancelled, strip, sched>>
    /\ UNCHANGED <<url, locals, ends, exportRequest, nFetch, nInit, nPoll, nFailed, nPending, polledIds>>

\* lines 113-114: self._sleep(interval, video_id, progress message)
Sleep ==
    /\ pc = "sleep"
    /\ nSleep' = nSleep + 1
    /\ sleepMsg' = ProgressMessage(attempt)
    /\ pc' = "poll"
    /\ UNCHANGED <<cancelled, strip, sched>>
    /\ UNCHANGED <<url, locals, ends, exportRequest, nFetch, nInit, nPoll, nFailed, nPending, polledIds>>

\* the exception with which an interrupted delay ends
KeyboardInterrupt == [msg |-> "KeyboardInterrupt", expected |-> FALSE]

\* variant in which an interrupted delay is caught and the poll goes ahead
SleepInterruptedCaught ==
    /\ pc = "sleep"
    /\ nSleep' = nSleep + 1
    /\ sleepMsg' = ProgressMessage(attempt)
    /\ cancelled' = TRUE
    /\ pc' = "poll"
    /\ UNCHANGED <<strip, sched>>
    /\ UNCHANGED <<url, locals, ends, exportRequest, nFetch, nInit, nPoll, nFailed, nPending, polledIds>>

\* lines 113-114, the delay is interrupted: nothing in the loop catches the
\* exception, so it leaves _real_extract before line 116
SleepInterrupted ==
    /\ pc = "sleep"
    /\ nSleep' = nSleep + 1
    /\ sleepMsg' = ProgressMessage(attempt)
    /\ cancelled' = TRUE
    /\ Raise(KeyboardInterrupt)
    /\ UNCHANGED <<strip, sched>>
    /\ UNCHANGED <<url, locals, exportRequest, nFetch, nInit, nPoll, nFailed, nPending, polledIds>>

\* variant that polls with the design id instead of the export identifier
PollTargetDesignId == video_id

\* variant in which the export identifier is kept in a place the runs share,
\* so that a poll asks for the job initiated last
PollTargetShared == IF TwoRuns /\ other.export_id # None THEN other.export_id ELSE export_id

\* line 117: the identifier in the URL of the poll request
PollTarget == export_id

\* variant in which a failed poll counts as "still pending"
PollFailsRetried ==
    /\ pc = "poll"
    /\ nFailed < 2
    /\ nPoll' = nPoll + 1
    /\ polledIds' = polledIds \cup {PollTarget}
    /\ nFailed' = nFailed + 1
    /\ pc' = "sleep"
    /\ UNCHANGED <<cancelled, strip, sched>>
    /\ UNCHANGED <<url, locals, ends, exportRequest, nFetch, nInit, nSleep, nPending, sleepMsg>>

\* lines 116-121, _download_json raises: the failure propagates
PollFails ==
    /\ pc = "poll"
    /\ nPoll' = nPoll + 1
    /\ polledIds' = polledIds \cup {PollTarget}
    /\ nFailed' = nFailed + 1
    /\ \E expected \in ExpectedFlags : Raise(ExtractorError("Unable to download JSON metadata", expected))
    /\ UNCHANGED <<cancelled, strip, sched>>
    /\ UNCHANGED <<url, locals, exportRequest, nFetch, nInit, nSleep, nPending, sleepMsg>>

\* variant of the URL lookup that tries export.exportBlobs first
VideoUrlBlobFirst(data) == Or(TraverseUrl(data.blob_url), TraverseUrl(data.output_url))

\* variant of the URL lookup without the url_or_none filter
VideoUrlUnchecked(data) == Or(TraverseStr(data.output_url), TraverseStr(data.blob_url))

\* lines 125-127: the media URL of a COMPLETE response
VideoUrl(data) == Or(TraverseUrl(data.output_url), TraverseUrl(data.blob_url))

\* lines 132-140: the info dict returned
InfoDict(data) ==
    [id |-> video_id,
     title |-> Or(TraverseStr(data.output_title), title),
     url |-> VideoUrl(data),
     ext |-> Str(<<"m","p","4">>),
     thumbnail |-> thumbnail,
     width |-> width,
     height |-> height]

\* variants of the status tests: a misspelt literal, a case-insensitive test
IsCompleteTypo(status) == status = Str(<<"C","O","M","P","L","E","T","E","D">>)
IsCompleteAnyCase(status) == status.t = "str" /\ Lower(status.v) = Lower(COMPLETE)
IsFailedTypo(status) == status = Str(<<"F","A","I","L","U","R","E">>)

\* line 124: status == 'COMPLETE'
IsComplete(status) == status = Str(COMPLETE)

\* line 142: status == 'FAILED'
IsFailed(status) == status = Str(FAILED)

\* lines 145-146: the message of the timeout error
TimeoutMessage ==
    "Export did not complete after " \o ToString(_POLLING_MAX_ATTEMPTS) \o " attempts"

\* variant of the loop range with an inclusive-bound slip
AttemptsOffByOne == 1..(_POLLING_MAX_ATTEMPTS + 1)

\* line 112: the attempts of the polling loop
Attempts == 1.._POLLING_MAX_ATTEMPTS

\* lines 116-146: one poll and what the loop body does with its response
Poll ==
    /\ pc = "poll"
    /\ nPoll' = nPoll + 1
    /\ polledIds' = polledIds \cup {PollTarget}
    /\ \E data \in PollInputs :
        /\ poll_data' = data
        /\ LET status == TraverseStr(data.status) IN
           IF IsComplete(status)
           THEN /\ IF ~Truthy(VideoUrl(data))
                   THEN Raise(ExtractorError("Export completed but no download URL found", FALSE))
                   ELSE Return(InfoDict(data))
                /\ UNCHANGED <<attempt, nPending>>
           ELSE IF IsFailed(status)
           THEN /\ Raise(ExtractorError("Canva export failed on the server side", FALSE))
                /\ UNCHANGED <<attempt, nPending>>
           ELSE /\ nPending' = nPending + 1
                /\ IF attempt + 1 \in Attempts
                   THEN /\ attempt' = attempt + 1
                        /\ pc' = "sleep"
                        /\ UNCHANGED ends
                   ELSE /\ Raise(ExtractorError(TimeoutMessage, FALSE))
                        /\ UNCHANGED attempt
    /\ UNCHANGED <<cancelled, strip, sched>>
    /\ UNCHANGED <<url, video_id, token, webpage, title, thumbnail, width, height,
                   export_data, export_id, exportRequest, nFetch, nInit, nSleep, nFailed, sleepMsg>>

Next ==
    \/ MatchValidUrl
    \/ DownloadWebpageFails
    \/ DownloadWebpage
    \/ InitiateExportFails
    \/ InitiateExport
    \/ Sleep
    \/ SleepInterrupted
    \/ PollFails
    \/ Poll

Spec == Init /\ [][Next]_vars

(***************************************************************************)
(* Two extractions of different designs, interleaved at their steps: the   *)
(* variables of a run hold the active extraction, `other` the suspended    *)
(* one.  Each call of _real_extract has its own locals; the class          *)
(* attributes it reads are the constants above.                            *)
(***************************************************************************)
InitTwo ==
    /\ pc = "match"
    /\ url = Url1
    /\ video_id = None /\ token = None /\ webpage = <<>>
    /\ title = None /\ thumbnail = None /\ width = 0 /\ height = 0
    /\ export_data = NoExportData /\ export_id = None /\ attempt = 0 /\ poll_data = NoResponse
    /\ outcome = "running" /\ error = NoError /\ result = NoResult
    /\ exportRequest = NoRequest
    /\ nFetch = 0 /\ nInit = 0 /\ nSleep = 0 /\ nPoll = 0 /\ nFailed = 0 /\ nPending = 0
    /\ polledIds = {} /\ sleepMsg = NoSleep
    /\ cancelled = FALSE
    /\ source = <<>> /\ stripped = <<>>
    /\ other = NewRun(Url2) /\ active = 1

\* the active extraction is suspended at a step boundary and the other,
\* not yet finished, goes on
Switch ==
    /\ TwoRuns
    /\ other.pc # "done"
    /\ other' = ThisRun
    /\ active' = 3 - active
    /\ pc' = other.pc
    /\ url' = other.url
    /\ video_id' = other.video_id
    /\ token' = other.token
    /\ webpage' = other.webpage
    /\ title' = other.title
    /\ thumbnail' = other.thumbnail
    /\ width' = other.width
    /\ height' = other.height
    /\ export_data' = other.export_data
    /\ export_id' = other.export_id
    /\ attempt' = other.attempt
    /\ poll_data' = other.poll_data
    /\ outcome' = other.outcome
    /\ error' = other.error
    /\ result' = other.result
    /\ exportRequest' = other.exportRequest
    /\ nFetch' = other.nFetch
    /\ nInit' = other.nInit
    /\ nSleep' = other.nSleep
    /\ nPoll' = other.nPoll
    /\ nFailed' = other.nFailed
    /\ nPending' = other.nPending
    /\ polledIds' = other.polledIds
    /\ sleepMsg' = other.sleepMsg
    /\ cancelled' = other.cancelled
    /\ UNCHANGED strip

NextTwo ==
    \/ Next
    \/ Switch

SpecTwo == InitTwo /\ [][NextTwo]_vars

\* every collaborator call returns (or raises): a run that can take a step
\* eventually takes one
FairSpec == Spec /\ WF_vars(Next)

(***************************************************************************)
(* _strip_json_hijack on its own: the transform applied to a response text *)
(***************************************************************************)
InitStrip ==
    /\ pc = "strip"
    /\ url \in Urls
    /\ video_id = None /\ token = None /\ webpage = <<>>
    /\ title = None /\ thumbnail = None /\ width = 0 /\ height = 0
    /\ export_data = NoExportData /\ export_id = None /\ attempt = 0 /\ poll_data = NoResponse
    /\ outcome = "running" /\ error = NoError /\ result = NoResult
    /\ exportRequest = NoRequest
    /\ nFetch = 0 /\ nInit = 0 /\ nSleep = 0 /\ nPoll = 0 /\ nFailed = 0 /\ nPending = 0
    /\ polledIds = {} /\ sleepMsg = NoSleep
    /\ cancelled = FALSE
    /\ source \in StripInputs /\ stripped = <<>>
    /\ other = NoRun /\ active = 1

\* lines 49-50: return re.sub(self._JSON_HIJACK_RE, '', data)
StripJsonHijack ==
    /\ pc = "strip"
    /\ stripped' = _strip_json_hijack(source)
    /\ pc' = "stripped"
    /\ UNCHANGED <<url, locals, ends, calls, cancelled, source, sched>>

NextStrip == StripJsonHijack

SpecStrip == InitStrip /\ [][NextStrip]_vars

TypeOK ==
    /\ pc \in {"match", "webpage", "export", "sleep", "poll", "done", "strip", "stripped"}
    /\ outcome \in {"running", "result", "error"}
    /\ attempt \in 0.._POLLING_MAX_ATTEMPTS

(***************************************************************************)
(* Properties                                                              *)
(***************************************************************************)

\* C1: when every poll response is non-terminal the poller makes exactly
\* _POLLING_MAX_ATTEMPTS (30) delay+fetch cycles, never a 31st, and then
\* raises the timeout error and returns no result.
C1_TimeoutAfterThirtyCycles ==
    /\ nPoll <= 30 /\ nSleep <= 30
    /\ nPending = 30 =>
         /\ pc = "done" /\ outcome = "error"
         /\ error = ExtractorError("Export did not complete after 30 attempts", FALSE)
         /\ result = NoResult
         /\ nPoll = 30 /\ nSleep = 30
    /\ (pc = "done" /\ nPoll >= 1 /\ nPending = nPoll /\ nSleep = nPoll) => nPending = 30
    /\ error.msg = "Export did not complete after 30 attempts" => nPending = 30

C1_Witness ==
    /\ pc = "done" /\ nPending = 30 /\ nPoll = 30
    /\ error.msg = "Export did not complete after 30 attempts"

\* C2: when the k-th response (1 <= k <= 30) is COMPLETE with a well-formed
\* media URL after k-1 non-terminal ones, the run has made exactly k cycles,
\* polls no more and returns the result whose url is a URL of that response.
C2_CompleteAtKReturnsItsUrl ==
    (/\ poll_data.status = Str(COMPLETE)
     /\ \E u \in {poll_data.output_url, poll_data.blob_url} : url_or_none(u) # None)
    => /\ pc = "done" /\ outcome = "result" /\ error = NoError
       /\ result.url \in {poll_data.output_url, poll_data.blob_url}
       /\ url_or_none(result.url) = result.url /\ result.url # None
       /\ attempt \in 1..30
       /\ nPoll = attempt /\ nSleep = attempt /\ nPending = attempt - 1

C2_Witness ==
    /\ outcome = "result" /\ attempt = 30 /\ nPending = 29
    /\ poll_data.status = Str(COMPLETE) /\ result.url = GoodUrlB

\* C3: a FAILED response at the k-th poll ends the run at once with the
\* remote-job error after exactly k cycles (1 cycle when it is the first
\* response); no delay or poll follows and no result is returned.
C3_FailedEndsRunAtOnce ==
    poll_data.status = Str(FAILED)
    => /\ pc = "done" /\ outcome = "error"
       /\ error = ExtractorError("Canva export failed on the server side", FALSE)
       /\ result = NoResult
       /\ nPoll = attempt /\ nSleep = attempt /\ nPending = attempt - 1

C3_Witness ==
    /\ poll_data.status = Str(FAILED) /\ pc = "done"
    /\ nPoll = 1 /\ nSleep = 1 /\ outcome = "error"

\* C4: a COMPLETE response in which neither export.output.exportBlobs[0].url
\* nor export.exportBlobs[0].url is a well-formed URL raises the protocol
\* error: no result (so none with a null or empty url) is returned, and no
\* further poll is made even when attempts remain.
C4_CompleteWithoutUrlIsFatal ==
    /\ (/\ poll_data.status = Str(COMPLETE)
        /\ url_or_none(poll_data.output_url) = None
        /\ url_or_none(poll_data.blob_url) = None)
       => /\ pc = "done" /\ outcome = "error"
          /\ error = ExtractorError("Export completed but no download URL found", FALSE)
          /\ result = NoResult
          /\ nPoll = attempt /\ nSleep = attempt
    /\ outcome = "result" =>
          /\ result.url.t = "str" /\ Len(result.url.v) > 0
          /\ url_or_none(result.url) = result.url

C4_Witness ==
    /\ poll_data.status = Str(COMPLETE)
    /\ poll_data.output_url = BadUrl /\ poll_data.blob_url = BadUrl
    /\ attempt < 30 /\ outcome = "error"

\* C5: a page containing 'Request access' in any letter case raises the
\* access-denied error and no export initiation, delay or poll is made.
C5_RequestAccessAnyCaseDenied ==
    Contains(Lower(webpage), Lower(RequestAccessMarker))
    => /\ pc = "done" /\ outcome = "error" /\ error.expected
       /\ nInit = 0 /\ nSleep = 0 /\ nPoll = 0

\* C6: the export-initiation request is issued at most once per run and
\* exactly once in a run that sleeps or polls; it is issued only after the
\* page fetch returned and passed the access check, and a failed or malformed
\* initiation response ends the run without another initiation.
C6_InitiationExactlyOnce ==
    /\ nInit <= 1
    /\ (nSleep >= 1 \/ nPoll >= 1) => nInit = 1
    /\ nInit >= 1 =>
         /\ nFetch = 1 /\ webpage \in Pages
         /\ ~Contains(Lower(webpage), PermissionMarker)
         /\ ~Contains(webpage, RequestAccessMarker)
    /\ pc \in {"match", "webpage", "export"} => nInit = 0 /\ nSleep = 0 /\ nPoll = 0
    /\ (nInit >= 1 /\ (export_id.t # "str" \/ export_id.v = <<>>)) =>
         /\ pc = "done" /\ outcome = "error"
         /\ nSleep = 0 /\ nPoll = 0

C6_Witness ==
    /\ nInit = 1 /\ nPoll = 30 /\ pc = "done"

\* C7: every poll request of a run targets the same export identifier, the
\* one returned by the run's initiation response; it is not changed between
\* attempts 1 and 30 whatever the poll responses contain.
C7_SameExportIdentifier ==
    /\ polledIds \subseteq {export_data.exportIdentifier}
    /\ nPoll >= 1 => polledIds = {export_data.exportIdentifier}
    /\ attempt >= 1 => export_id = export_data.exportIdentifier /\ export_id.t = "str"

C7_Witness ==
    /\ nPoll = 30 /\ polledIds = {ExportId2} /\ poll_data.output_title = JobTitle

\* C8: an initiation response without export.exportIdentifier, or with one
\* that is not a string or is the empty string, raises the protocol error
\* before any delay or poll: zero delays and zero polls occur.
C8_MissingIdentifierIsFatal ==
    (/\ nInit >= 1
     /\ export_data # NoExportData
     /\ (export_data.exportIdentifier.t # "str" \/ export_data.exportIdentifier.v = <<>>))
    => /\ pc = "done" /\ outcome = "error"
       /\ error = ExtractorError("Failed to get export identifier from Canva API", FALSE)
       /\ nSleep = 0 /\ nPoll = 0 /\ attempt = 0

C8_Witness ==
    /\ export_data.exportIdentifier = Str(<<>>) /\ pc = "done"
    /\ error.msg = "Failed to get export identifier from Canva API"

\* C9: a failure signalled by the page fetch, the initiation request or a
\* poll request ends the run with that failure; the request is not issued
\* again and no delay, poll or initiation follows.  Only a fetched poll
\* response whose status is not terminal leads to another poll.
C9_NoFailureRetried ==
    /\ nFailed <= 1 /\ nFetch <= 1 /\ nInit <= 1
    /\ nFailed = 1 =>
         /\ pc = "done" /\ outcome = "error"
         /\ error.msg \in {"Unable to download webpage", "Failed to initiate export",
                           "Unable to download JSON metadata"}
         /\ error.msg = "Unable to download webpage" => nFetch = 1 /\ nInit = 0 /\ nSleep = 0 /\ nPoll = 0
         /\ error.msg = "Failed to initiate export" => nInit = 1 /\ nSleep = 0 /\ nPoll = 0
         /\ error.msg = "Unable to download JSON metadata" => nPoll = attempt /\ nSleep = attempt
    /\ nPoll <= nPending + 1
    /\ pc \in {"sleep", "poll"} => nPoll = nPending /\ nFailed = 0

C9_Witness ==
    /\ nFailed = 1 /\ error.msg = "Unable to download JSON metadata"
    /\ attempt = 7 /\ nPoll = 7 /\ pc = "done"

\* C10: at an attempt k < 30 a fetched poll response whose status is not
\* exactly 'COMPLETE' or 'FAILED' (missing, null, not a string, or another
\* case such as 'complete') raises nothing and returns nothing: the poller
\* goes on to attempt k+1, with a new delay followed by a new poll.
C10_OtherStatusContinues ==
    [][ /\ (/\ pc = "poll" /\ attempt < 30
            /\ nPoll' = nPoll + 1 /\ nFailed' = nFailed
            /\ poll_data'.status \notin {Str(COMPLETE), Str(FAILED)})
           => /\ pc' = "sleep" /\ attempt' = attempt + 1
              /\ outcome' = "running" /\ error' = NoError /\ result' = NoResult
        /\ pc = "sleep" => /\ nSleep' = nSleep + 1 /\ attempt' = attempt
                          /\ (pc' = "poll" \/ cancelled')
        /\ pc = "poll" => nPoll' = nPoll + 1 ]_vars

C10_Witness ==
    /\ pc = "poll" /\ attempt = 30 /\ outcome = "running"
    /\ poll_data.status = Str(CompleteLower) /\ nPending = 29

\* C11 as stated: a text that contains a guard is returned from the end of
\* the first guard occurrence on, whatever precedes that guard, and a text
\* without a guard is returned unchanged.
C11_StripsFirstGuardAlways ==
    pc = "stripped" =>
      LET starts == {i \in 1..(Len(source) + 1) : MatchTokens(source, i, HijackGuard, 1, <<>>).ok}
      IN IF starts = {} THEN stripped = source
         ELSE LET first == CHOOSE i \in starts : \A j \in starts : i <= j
                  after == MatchTokens(source, first, HijackGuard, 1, <<>>).end
              IN stripped = SubSeq(source, after, Len(source))

\* C11, amended: when no line break precedes the first guard occurrence the
\* text is returned from the end of that occurrence on (a later guard in the
\* payload is kept), and a text without a guard is returned unchanged.
C11_StripsFirstGuardOnFirstLine ==
    pc = "stripped" =>
      LET starts == {i \in 1..(Len(source) + 1) : MatchTokens(source, i, HijackGuard, 1, <<>>).ok}
      IN IF starts = {} THEN stripped = source
         ELSE LET first == CHOOSE i \in starts : \A j \in starts : i <= j
                  after == MatchTokens(source, first, HijackGuard, 1, <<>>).end
              IN (\A q \in 1..(first - 1) : source[q] # "\n")
                 => stripped = SubSeq(source, after, Len(source))

C11_Witness ==
    /\ pc = "stripped"
    /\ source = <<"'","\"",")","]","}">> \o GuardSpaced \o GuardCompact
    /\ stripped = GuardCompact

\* C12: of the errors raised by _real_extract itself, the access-denied
\* error is the only one marked expected; the missing-identifier, missing-URL,
\* remote-failure and timeout errors are raised unexpected, each with its own
\* message in its own case.
C12_OnlyAccessDeniedExpected ==
    LET denied == "You do not have permission to access this design. "
                  \o "The owner must share it as \"Anyone with the link can view\""
        noId == "Failed to get export identifier from Canva API"
        noUrl == "Export completed but no download URL found"
        failed == "Canva export failed on the server side"
        timeout == "Export did not complete after 30 attempts"
    IN outcome = "error" =>
         /\ error.msg = denied <=>
              (nFetch = 1 /\ nFailed = 0 /\ nInit = 0 /\ pc = "done" /\ webpage # <<>>)
         /\ error.msg = denied => error.expected
         /\ error.msg \in {noId, noUrl, failed, timeout} => ~error.expected
         /\ error.msg = noId <=> (nInit = 1 /\ nFailed = 0 /\ attempt = 0 /\ ~cancelled)
         /\ error.msg = noUrl <=>
              (nPoll = attempt /\ nFailed = 0 /\ poll_data.status = Str(COMPLETE))
         /\ error.msg = failed <=>
              (nPoll = attempt /\ nFailed = 0 /\ poll_data.status = Str(FAILED))
         /\ error.msg = timeout <=> nPending = 30

C12_Witness ==
    /\ outcome = "error" /\ error.expected /\ webpage = PagePermissionCaps
    /\ nFetch = 1 /\ nInit = 0

\* C13: a URL that does not match https://<host>/design/<id>/<token>/(watch|view)
\* makes the run fail with the input-format error of line 53 before any page
\* fetch, export initiation, delay or poll.
C13_BadUrlFailsBeforeAnyFetch ==
    (pc # "match" /\ url \in {UrlNoToken, UrlOtherHost, UrlEdit})
    => /\ pc = "done" /\ outcome = "error" /\ error = InputFormatError
       /\ result = NoResult
       /\ nFetch = 0 /\ nInit = 0 /\ nSleep = 0 /\ nPoll = 0

C13_Witness ==
    /\ url = UrlEdit /\ pc = "done" /\ outcome = "error" /\ nFetch = 0

\* C14: for a URL that matches the pattern, id and token are the first and
\* the second path segment after '/design/' (each non-empty and without a
\* slash), and they are the content id and extension of the export request
\* and the id of the result.
C14_IdAndTokenAreTheTwoSegments ==
    (pc # "match" /\ error # InputFormatError)
    => LET design == <<"/","d","e","s","i","g","n","/">>
           d == CHOOSE i \in 1..Len(url) :
                  /\ StartsAt(url, i, design)
                  /\ \A j \in 1..(i - 1) : ~StartsAt(url, j, design)
           idStart == d + Len(design)
           idEnd == idStart + Len(video_id.v)
           tokenEnd == idEnd + 1 + Len(token.v)
       IN /\ video_id.t = "str" /\ token.t = "str"
          /\ Len(video_id.v) > 0 /\ Len(token.v) > 0
          /\ \A q \in 1..Len(video_id.v) : video_id.v[q] # "/"
          /\ \A q \in 1..Len(token.v) : token.v[q] # "/"
          /\ SubSeq(url, idStart, idEnd - 1) = video_id.v
          /\ url[idEnd] = "/"
          /\ SubSeq(url, idEnd + 1, tokenEnd - 1) = token.v
          /\ url[tokenEnd] = "/"
          /\ url = Url1 => video_id.v = <<"D","A","1">> /\ token.v = <<"t","K","1">>
          /\ nInit >= 1 => exportRequest.id = video_id /\ exportRequest.extension = token
          /\ outcome = "result" => result.id = video_id

C14_Witness ==
    /\ url = Url2 /\ outcome = "result"
    /\ result.id = Str(<<"D","B","2">>)
    /\ exportRequest.id = Str(<<"D","B","2">>)
    /\ exportRequest.extension = Str(<<"t","K","2">>)

C16_FirstWellFormedUrlWins ==
    /\ outcome = "result" =>
         /\ url_or_none(poll_data.output_url) # None => result.url = poll_data.output_url
         /\ (url_or_none(poll_data.output_url) = None /\ url_or_none(poll_data.blob_url) # None)
              => result.url = poll_data.blob_url
    /\ (/\ poll_data.status = Str(COMPLETE)
        /\ url_or_none(poll_data.output_url) = None
        /\ url_or_none(poll_data.blob_url) # None) => outcome = "result"

C16_Witness ==
    /\ outcome = "result"
    /\ poll_data.output_url = BadUrl /\ poll_data.blob_url = GoodUrlB
    /\ result.url = GoodUrlB

\* C17: delays and polls alternate, starting with a delay: a poll is issued
\* only right after one delay of interval 3 whose message carries the
\* attempt number of that poll out of 30, a delay starts only when every
\* earlier delay has had its poll, and delays minus polls is 0 or 1 with
\* both at most 30.
C17_DelayThenPoll ==
    [][ /\ nSleep' - nPoll' \in {0, 1} /\ nSleep' <= 30 /\ nPoll' <= 30
        /\ nPoll' = nPoll + 1 =>
             /\ nSleep = nPoll + 1 /\ nSleep' = nSleep
             /\ sleepMsg = [interval |-> 3, attempt |-> nPoll + 1, of |-> 30]
             /\ attempt = nPoll + 1
        /\ nSleep' = nSleep + 1 =>
             /\ nSleep = nPoll /\ nPoll' = nPoll
             /\ sleepMsg' = [interval |-> 3, attempt |-> nSleep + 1, of |-> 30]
        /\ nPoll' \in {nPoll, nPoll + 1} /\ nSleep' \in {nSleep, nSleep + 1} ]_vars

C17_Witness ==
    /\ pc = "poll" /\ nSleep = 30 /\ nPoll = 29
    /\ sleepMsg = [interval |-> 3, attempt |-> 30, of |-> 30]

\* C19: when the delay before attempt k is interrupted, the poll of attempt
\* k is not issued, no later delay or poll occurs and no result is returned.
C19_CancelledDelayAbandonsPoll ==
    cancelled =>
      /\ pc = "done" /\ outcome = "error" /\ error = KeyboardInterrupt
      /\ result = NoResult
      /\ attempt \in 1..30
      /\ nSleep = attempt /\ nPoll = attempt - 1 /\ nPending = attempt - 1
      /\ sleepMsg.attempt = attempt

C19_Witness ==
    /\ cancelled /\ pc = "done" /\ attempt = 4 /\ nSleep = 4 /\ nPoll = 3

\* C18: when every collaborator call returns, a run reaches one terminal
\* outcome (a result or an error, never both) after at most 1 page fetch,
\* 1 initiation, 30 delays and 30 polls, and does nothing after it; for a
\* matching URL and uninterrupted delays the outcome is a result, access
\* denied, a protocol error, the remote failure, the timeout or a propagated
\* fetch failure.
C18_RunTerminates ==
    /\ <>[](/\ pc = "done" /\ outcome \in {"result", "error"}
            /\ nFetch <= 1 /\ nInit <= 1 /\ nSleep <= 30 /\ nPoll <= 30)
    /\ [](/\ nFetch <= 1 /\ nInit <= 1 /\ nSleep <= 30 /\ nPoll <= 30
          /\ pc = "done" <=> outcome # "running"
          /\ outcome = "result" => error = NoError /\ result # NoResult
          /\ outcome = "error" => error # NoError /\ result = NoResult
          /\ (outcome = "error" /\ ~cancelled /\ url \in {Url1, Url2}) =>
               error.msg \in {"You do not have permission to access this design. "
                                \o "The owner must share it as \"Anyone with the link can view\"",
                              "Failed to get export identifier from Canva API",
                              "Export completed but no download URL found",
                              "Canva export failed on the server side",
                              "Export did not complete after 30 attempts",
                              "Unable to download webpage", "Failed to initiate export",
                              "Unable to download JSON metadata"})
    /\ [][pc = "done" => UNCHANGED vars]_vars

C18_Witness ==
    /\ pc = "done" /\ outcome = "error" /\ error.msg = "Unable to download JSON metadata"
    /\ nFetch = 1 /\ nInit = 1 /\ nSleep = 30 /\ nPoll = 30

\* C20: of two interleaved runs for different designs, a step of one leaves
\* every local of the other as it was (attempt counter, export identifier,
\* dimensions, title, thumbnail and the rest), a switch exchanges the two
\* runs whole, and each run's requests and outcome are those of a run alone
\* on its own URL and its own responses: the export request carries its own
\* id, token and page dimensions, every poll names its own export identifier,
\* its delays and polls follow its own attempt counter, and its result is
\* built from its own page and its own last poll response; the interval 3
\* and the budget 30 are the same before and after every step.
C20_InterleavedRunsIndependent ==
    /\ [](
          LET Alone(r) ==
                  /\ r.pc = "webpage" =>
                       /\ r.video_id = Str(_match_valid_url(r.url).groups[1])
                       /\ r.token = Str(_match_valid_url(r.url).groups[2])
                  /\ (r.pc = "export" /\ r.nInit = 0) =>
                       <<r.width, r.height>> = Dimensions(r.webpage)
                  /\ r.nInit = 1 =>
                       /\ r.exportRequest = [id |-> r.video_id, extension |-> r.token,
                                             width |-> r.width, height |-> r.height]
                       /\ r.export_id = TraverseStr(r.export_data.exportIdentifier)
                  /\ r.polledIds \subseteq {r.export_id}
                  /\ r.pc = "sleep" => r.nSleep = r.attempt - 1 /\ r.nPoll = r.attempt - 1
                  /\ r.pc = "poll" =>
                       /\ r.nSleep = r.attempt /\ r.nPoll = r.attempt - 1
                       /\ r.sleepMsg = [interval |-> 3, attempt |-> r.attempt, of |-> 30]
                  /\ r.outcome = "result" =>
                       /\ r.result.id = r.video_id
                       /\ r.result.url = Or(TraverseUrl(r.poll_data.output_url),
                                            TraverseUrl(r.poll_data.blob_url))
                       /\ r.result.title = Or(TraverseStr(r.poll_data.output_title), r.title)
                       /\ r.result.thumbnail = r.thumbnail
                       /\ r.result.width = r.width /\ r.result.height = r.height
                       /\ r.nPoll = r.attempt
                  /\ (r.outcome = "error" /\ r.error = ExtractorError(TimeoutMessage, FALSE)) =>
                       r.nPoll = 30
          IN
          /\ <<url, other.url>> = IF active = 1 THEN <<Url1, Url2>> ELSE <<Url2, Url1>>
          /\ Alone(ThisRun) /\ Alone(other)
          /\ _POLLING_INTERVAL = 3 /\ _POLLING_MAX_ATTEMPTS = 30)
    /\ [][ /\ (active' = active =>
                 /\ other' = other
                 /\ (pc # "match" => UNCHANGED <<url, video_id, token>>)
                 /\ (nFetch = 1 => UNCHANGED <<width, height, title, thumbnail>>))
           /\ (active' # active => (other' = ThisRun /\ ThisRun' = other)) ]_vars

\* both runs have finished after interleaved polls, on different export
\* identifiers, attempt counts and dimensions
C20_Witness ==
    /\ TwoRuns
    /\ pc = "done" /\ other.pc = "done"
    /\ outcome = "result" /\ other.outcome = "result"
    /\ export_id # other.export_id
    /\ attempt = 3 /\ other.attempt = 5
    /\ width # other.width
    /\ result.id # other.result.id

====
